---- MODULE Spec2Model ----
(***************************************************************************)
(* instaproxy (src/app.py): the tier chain InstagramAPIByCache ->          *)
(* InstagramAPIByEmbedAPI -> InstagramAPIByPrivateAPI as a state machine.  *)
(*                                                                         *)
(* One thread "main" runs the module-level construction (login); after it  *)
(* the request threads run the four HTTP handlers concurrently.  Every     *)
(* thread has a call stack of frames; one action is one step of the method *)
(* in the top frame, up to and including its next access to shared state   *)
(* (the redis cache, self.raw_api, self.device_id, the settings file) or   *)
(* its next upstream call, whose outcome the environment chooses.  A step   *)
(* that touches no shared state commutes with every step of the other      *)
(* threads, so such steps are taken before any other thread moves (Free).  *)
(***************************************************************************)
EXTENDS Integers, Sequences, FiniteSets, TLC

\* ------------------------------------------------------------------ bounds
MaxTicks == 1       \* steps of the clock in one run
MaxCodeLen == 3     \* symbols of a shortcode given to the codec
MaxEdges == 2       \* edges of edge_sidecar_to_children given to the transforms

\* ------------------------------------------------------- program constants
PostTTL == 24       \* timedelta(hours=24), in hours
UserTTL == 168      \* timedelta(weeks=1), in hours
StoryTTL == 24      \* timedelta(hours=24), in hours
NoTTL == 0          \* ex=None

\* ------------------------------------------------------------------ inputs
Main == "main"
Req == {"r1", "r2"}
Threads == {Main} \cup Req

Users == {"alice"}
StoryUsers == {"alice", "bob"}    \* the user names given with a story id
Shortcodes == {<<"B", "C">>, <<"B", "!">>}
StoryIds == {<<"6", "7">>}
TickHours == {PostTTL, UserTTL}

\* the 64 symbols of b64alphabetmap, in order
alphabet ==
  << "A","B","C","D","E","F","G","H","I","J","K","L","M","N","O","P",
     "Q","R","S","T","U","V","W","X","Y","Z","a","b","c","d","e","f",
     "g","h","i","j","k","l","m","n","o","p","q","r","s","t","u","v",
     "w","x","y","z","0","1","2","3","4","5","6","7","8","9","-","_" >>

\* as b64alphabetmap, but enumerating from 1
b64alphabetmap_from_one(c) == CHOOSE i \in 1..64 : alphabet[i] = c

b64alphabetmap(c) == CHOOSE i \in 0..63 : alphabet[i + 1] = c

InAlphabet(c) == \E i \in 1..64 : alphabet[i] = c

RECURSIVE shortcode_to_id(_)
\* id += b64alphabetmap[c] * 64 ** i over the reversed shortcode
shortcode_to_id(shortcode) ==
  IF shortcode = <<>> THEN 0
  ELSE b64alphabetmap(shortcode[Len(shortcode)])
       + 64 * shortcode_to_id(SubSeq(shortcode, 1, Len(shortcode) - 1))

ValidShortcode(shortcode) == \A i \in 1..Len(shortcode) : InAlphabet(shortcode[i])

\* ------------------------------------------------------------------ values
\* A JSON value handled by the tiers, reduced to the fields the tiers read:
\* kind "None" is Python's None.
\*   kind   what the value is ("post", "user", "stories", "story", ...), or, for
\*          raw embed data, its root key ("shortcode_media", ...)
\*   tier   the tier or strategy that produced it
\*   id     the shortcode or identifier in it; user: the user name in it
\*   utier  for a post: the tier that produced its "user" entry
\*   media  the media of a post (raw data: the __typename of each child)
\*   sidecar  raw data: "edge_sidecar_to_children" is present
\*   items  the identifiers of the items of a reel, in order
Value(kind, tier, id, user, utier, media, sidecar, items) ==
  [kind |-> kind, tier |-> tier, id |-> id, user |-> user, utier |-> utier,
   media |-> media, sidecar |-> sidecar, items |-> items]

None == Value("None", "", <<>>, "", "", <<>>, FALSE, <<>>)

\* json.dumps / json.loads: the stored form is text, not the value itself
json_dumps(val) == [json |-> val]
json_loads(text) == text.json

\* ---------------------------------------------------------------- sessions
NoDevice == "unset"          \* self.device_id before any assignment
NoClient == [device_id |-> NoDevice, sess |-> ""]   \* self.raw_api unassigned
NoFile == [state |-> "absent", device_id |-> NoDevice, sess |-> ""]
CorruptFile == [state |-> "corrupt", device_id |-> NoDevice, sess |-> ""]
SavedFile(settings) ==
  [state |-> "saved", device_id |-> settings.device_id, sess |-> settings.sess]

\* ------------------------------------------------------------------- cache
Kinds == {"post", "user", "story"}
\* f'instagram:{kind}:{id}': the segments of the key
CacheKey(kind, id) == <<"instagram", kind, id>>
\* the keys of the database the model follows, with and without the prefix
Resources == {<<"post", s>> : s \in Shortcodes}
             \cup {<<"user", <<u>>>> : u \in Users}
             \cup {<<"story", s>> : s \in StoryIds}
Keys == Resources \cup {<<"instagram", r[1], r[2]>> : r \in Resources}
        \cup {CacheKey("user", <<u>>) : u \in StoryUsers}
\* An entry: text stored with TTL ex (NoTTL: none), of which left hours
\* remain.  Beside it, what with_cache did: the value it serialized (wrote),
\* the TTL it was called with (ttl), and the hours since then (age); an
\* entry that expired keeps its ttl.
NoEntry == [present |-> FALSE, text |-> json_dumps(None), ex |-> 0, left |-> 0,
            wrote |-> None, ttl |-> 0, age |-> 0]

VARIABLES
  file,        \* the settings file (settings_file_name)
  device_id,   \* self.device_id
  raw_api,     \* self.raw_api: the settings of the Client in use
  cache,       \* the redis database: key -> entry
  ticks,       \* clock steps taken
  stack,       \* per thread: the call stack, top frame last
  ret,         \* per thread: what the last finished call returned or raised
  mode         \* per thread: idle | run | ret | done | failed

vars == <<file, device_id, raw_api, cache, ticks, stack, ret, mode>>
shared == <<file, device_id, raw_api, cache, ticks>>

\* ------------------------------------------------------------------ frames
\* One frame per active method call: fn the method, pc the place in it, and
\* its arguments and locals (kind: the resource kind or upstream call; user,
\* code: the user name and shortcode/story id; key, ex: the cache key and TTL;
\* v: a local value; client: a Client under construction).  The rest is
\* bookkeeping of what happened during the call: n the calls of relogin(),
\* calls the upstream calls of f, tried the post extraction strategies tried,
\* supers the calls of the overridden super() method, saw what the cache
\* lookup found; in a frame of the embed tier's get_post, kind is what sent
\* it to super(): "extract", "transform" or "user".
Frame(fn, pc, kind, user, code, ex) ==
  [fn |-> fn, pc |-> pc, kind |-> kind, user |-> user, code |-> code,
   ex |-> ex, key |-> <<>>, v |-> None, client |-> NoClient,
   n |-> 0, calls |-> 0, tried |-> 0, supers |-> 0, saw |-> ""]

NoFrame == Frame("", "", "", "", <<>>, NoTTL)

\* what a call returned (exc = "") or raised, and the frame it ended in
NoRet == [exc |-> "", val |-> None, from |-> NoFrame]
Ok(val) == [exc |-> "", val |-> val]
Raise(e) == [exc |-> e, val |-> None]
Same(r) == [exc |-> r.exc, val |-> r.val]
SessionExpiry == {"ClientCookieExpiredError", "ClientLoginRequiredError"}

Top(t) == stack[t][Len(stack[t])]
Pop(s) == SubSeq(s, 1, Len(s) - 1)
SetTop(s, f) == [s EXCEPT ![Len(s)] = f]

\* thread t is about to take a step that neither writes shared state nor
\* depends on it: the continuation of a method after a call returned, or an
\* upstream request, whose outcome is the upstream's choice
Local(t) ==
  \/ mode[t] = "ret"
  \/ /\ mode[t] = "run"
     /\ stack[t] # <<>>
     /\ Top(t).fn \in {"_get_post_data", "Embed_get_user", "perform_api_action"}

\* no other thread is in the middle of such steps
Free(t) == \A u \in Threads \ {t} : ~Local(u)

At(t, fn, pc) ==
  /\ mode[t] = "run"
  /\ stack[t] # <<>>
  /\ Top(t).fn = fn
  /\ Top(t).pc = pc
  /\ Free(t)
Back(t, fn, pc) ==
  /\ mode[t] = "ret"
  /\ stack[t] # <<>>
  /\ Top(t).fn = fn
  /\ Top(t).pc = pc
  /\ Free(t)

\* the thread's local state after a step
Step(t, newstack, newret, newmode) ==
  /\ stack' = [stack EXCEPT ![t] = newstack]
  /\ ret' = [ret EXCEPT ![t] = newret]
  /\ mode' = [mode EXCEPT ![t] = newmode]

\* the method in the top frame, which ends as frame f, returns or raises r
\* to its caller
ReturningFrom(t, r, f) ==
  Step(t, Pop(stack[t]), [exc |-> r.exc, val |-> r.val, from |-> f], "ret")

Returning(t, r) == ReturningFrom(t, r, Top(t))

\* the method in the top frame goes on as frame f
GotoF(t, f) == Step(t, SetTop(stack[t], f), NoRet, "run")

Goto(t, pc) == GotoF(t, [Top(t) EXCEPT !.pc = pc])

\* the method in the top frame calls: it waits as frame f below the new frames
CallF(t, f, frames) == Step(t, SetTop(stack[t], f) \o frames, NoRet, "run")

Call(t, pc, frames) == CallF(t, [Top(t) EXCEPT !.pc = pc], frames)

\* a call of relogin() counts in every active call of perform_api_action and
\* of the private tier's get_stories
CountRelogin(s) ==
  [i \in 1..Len(s) |->
     IF s[i].fn \in {"perform_api_action", "Private_get_stories"}
     THEN [s[i] EXCEPT !.n = @ + 1] ELSE s[i]]

\* --------------------------------------------- InstagramAPIByPrivateAPI
\* self.raw_api.<kind>(...) answered: the value the upstream returns
ApiResult(kind, user, code, items) ==
  CASE kind = "media_info" -> Value("post", "private", code, "", "", <<>>, FALSE, <<>>)
    [] kind = "username_info" -> Value("user", "private", <<>>, user, "", <<>>, FALSE, <<>>)
    [] OTHER -> Value("reels", "private", <<>>, user, "", <<>>, FALSE, items)

\* the items of the reel the upstream may return for a user
ReelItems == { << <<"6", "7", "1">>, <<"6", "7", "2">> >>, << <<"9", "6", "7">> >> }

perform_api_action_frame(kind, user, code) ==
  Frame("perform_api_action", "try", kind, user, code, NoTTL)

relogin_frame == Frame("relogin", "client", "", "", <<>>, NoTTL)

\* the Client of a login by thread t with device identifier d: its session
\* is named after the thread that logged in
NewClient(t, d) == [device_id |-> d, sess |-> t]
GeneratedDevice == "dev-new"    \* Client generates one when none is given
SavedDevice == "dev-old"

\* login_callback: self.device_id and the settings file take the new settings
login_callback(api) ==
  /\ device_id' = api.device_id
  /\ file' = SavedFile(api)

\* the top frame calls self.relogin() and waits at pc "relogin"
CallRelogin(t, f) ==
  Step(t, CountRelogin(SetTop(stack[t], [f EXCEPT !.pc = "relogin"])) \o <<relogin_frame>>,
       NoRet, "run")

\* the module-level construction of api ends: the module is imported, or the
\* exception of login ends the process
construct(t) ==
  /\ Back(t, "module", "api")
  /\ Step(t, <<>>, NoRet, IF ret[t].exc = "" THEN "done" ELSE "failed")
  /\ UNCHANGED shared

\* login, the settings file absent: Client(username, password, on_login=...)
login_fresh(t) ==
  /\ At(t, "login", "start")
  /\ file.state = "absent"
  /\ \/ /\ login_callback(NewClient(t, GeneratedDevice))
        /\ raw_api' = NewClient(t, GeneratedDevice)
        /\ Returning(t, Ok(None))
     \/ /\ CallRelogin(t, Top(t))
        /\ UNCHANGED <<file, device_id, raw_api>>
     \/ /\ Returning(t, Raise("ClientError"))
        /\ UNCHANGED <<file, device_id, raw_api>>
  /\ UNCHANGED <<cache, ticks>>

\* as login_resume, but the Client is made with the credentials and the saved
\* device identifier: a login, whose callback rewrites the settings file
login_resume_fresh(t) ==
  /\ At(t, "login", "start")
  /\ file.state # "absent"
  /\ IF file.state = "corrupt"
     THEN /\ Returning(t, Raise("JSONDecodeError"))
          /\ UNCHANGED <<file, device_id, raw_api>>
     ELSE \/ /\ login_callback(NewClient(t, file.device_id))
             /\ raw_api' = NewClient(t, file.device_id)
             /\ Returning(t, Ok(None))
          \/ /\ device_id' = file.device_id
             /\ CallRelogin(t, Top(t))
             /\ UNCHANGED <<file, raw_api>>
          \/ /\ device_id' = file.device_id
             /\ Returning(t, Raise("ClientError"))
             /\ UNCHANGED <<file, raw_api>>
  /\ UNCHANGED <<cache, ticks>>

\* login, the settings file present: json.load, then Client(settings=...)
login_resume(t) ==
  /\ At(t, "login", "start")
  /\ file.state # "absent"
  /\ IF file.state = "corrupt"
     THEN /\ Returning(t, Raise("JSONDecodeError"))
          /\ UNCHANGED <<device_id, raw_api>>
     ELSE /\ device_id' = file.device_id
          /\ \/ /\ raw_api' = [device_id |-> file.device_id, sess |-> file.sess]
                /\ Returning(t, Ok(None))
             \/ /\ CallRelogin(t, Top(t))
                /\ UNCHANGED raw_api
             \/ /\ Returning(t, Raise("ClientError"))
                /\ UNCHANGED raw_api
  /\ UNCHANGED <<file, cache, ticks>>

\* login: relogin() has returned or raised; login returns None or raises
login_relogin(t) ==
  /\ Back(t, "login", "relogin")
  /\ Returning(t, Same(ret[t]))
  /\ UNCHANGED shared

\* as relogin_client, but single-flight: while another thread is in relogin
\* this one returns without logging in
relogin_client_single_flight(t) ==
  /\ At(t, "relogin", "client")
  /\ IF \E u \in Threads \ {t} : stack[u] # <<>> /\ Top(u).fn = "relogin"
     THEN /\ Returning(t, Ok(None))
          /\ UNCHANGED <<file, device_id>>
     ELSE \/ /\ login_callback(NewClient(t, device_id))
             /\ GotoF(t, [Top(t) EXCEPT !.pc = "assign", !.client = NewClient(t, device_id)])
          \/ /\ Returning(t, Raise("ClientError"))
             /\ UNCHANGED <<file, device_id>>
  /\ UNCHANGED <<raw_api, cache, ticks>>

\* relogin: Client(..., device_id=self.device_id, on_login=...) logs in and
\* calls login_callback; reading self.device_id fails when it was never set
relogin_client(t) ==
  /\ At(t, "relogin", "client")
  /\ IF device_id = NoDevice
     THEN /\ Returning(t, Raise("AttributeError"))
          /\ UNCHANGED <<file, device_id>>
     ELSE \/ /\ login_callback(NewClient(t, device_id))
             /\ GotoF(t, [Top(t) EXCEPT !.pc = "assign", !.client = NewClient(t, device_id)])
          \/ /\ Returning(t, Raise("ClientError"))
             /\ UNCHANGED <<file, device_id>>
  /\ UNCHANGED <<raw_api, cache, ticks>>

\* relogin: self.raw_api = <the new Client>
relogin_assign(t) ==
  /\ At(t, "relogin", "assign")
  /\ raw_api' = Top(t).client
  /\ Returning(t, Ok(None))
  /\ UNCHANGED <<file, device_id, cache, ticks>>

\* as LambdaRaises, but the shortcode is passed on to the upstream as it is
LambdaRaises_never(f) == FALSE

\* the lambda of get_post evaluates shortcode_to_id before the upstream call
LambdaRaises(f) == f.kind = "media_info" /\ ~ValidShortcode(f.code)

\* what one upstream call of f may do besides raising a session expiry:
\* return a value (for reels_media also one without the user's reel), or fail
ApiOutcomes(f) ==
  {Ok(ApiResult(f.kind, f.user, f.code, items)) :
     items \in IF f.kind = "reels_media" THEN ReelItems ELSE {<<>>}}
  \cup (IF f.kind = "reels_media" THEN {Ok(ApiResult(f.kind, "", f.code, <<>>))} ELSE {})
  \cup {Raise("ClientError")}

Called(f) == [f EXCEPT !.calls = @ + 1]

\* perform_api_action: try: return f(); a session expiry goes to self.relogin()
perform_api_action_try(t) ==
  /\ At(t, "perform_api_action", "try")
  /\ IF LambdaRaises(Top(t))
     THEN Returning(t, Raise("KeyError"))
     ELSE \/ \E r \in ApiOutcomes(Top(t)) : ReturningFrom(t, r, Called(Top(t)))
          \/ CallRelogin(t, Called(Top(t)))
  /\ UNCHANGED shared

\* as perform_api_action_relogin, but starting over at try: after the relogin
\* (a loop around the try instead of one retry)
perform_api_action_relogin_loop(t) ==
  /\ Back(t, "perform_api_action", "relogin")
  /\ IF ret[t].exc # ""
     THEN Returning(t, Same(ret[t]))
     ELSE Goto(t, "try")
  /\ UNCHANGED shared

\* perform_api_action: self.relogin() has returned or raised
perform_api_action_relogin(t) ==
  /\ Back(t, "perform_api_action", "relogin")
  /\ IF ret[t].exc # ""
     THEN Returning(t, Same(ret[t]))
     ELSE Goto(t, "retry")
  /\ UNCHANGED shared

\* as perform_api_action_retry, but a session expiry of the retry is caught
\* and answered with another relogin
perform_api_action_retry_again(t) ==
  /\ At(t, "perform_api_action", "retry")
  /\ \/ \E r \in ApiOutcomes(Top(t)) : ReturningFrom(t, r, Called(Top(t)))
     \/ CallRelogin(t, Called(Top(t)))
  /\ UNCHANGED shared

\* perform_api_action: except ...: return f(), whatever it returns or raises
perform_api_action_retry(t) ==
  /\ At(t, "perform_api_action", "retry")
  /\ \/ \E r \in ApiOutcomes(Top(t)) : ReturningFrom(t, r, Called(Top(t)))
     \/ \E e \in SessionExpiry : ReturningFrom(t, Raise(e), Called(Top(t)))
  /\ UNCHANGED shared

\* ------------------------------------------------------ calls: new frames
\* Each gives the frames a call pushes: the called method's frame and, when
\* the method's first statement is itself a call, the frames of that call.
with_cache_frame(key, kind, user, code, ex) ==
  [Frame("with_cache", "get", kind, user, code, ex) EXCEPT !.key = key]

\* InstagramAPIByCache.get_post / get_user / get_story
Cache_get_post(shortcode) ==
  <<with_cache_frame(CacheKey("post", shortcode), "post", "", shortcode, PostTTL)>>

\* as Cache_get_user, but with the TTL of a post
Cache_get_user_daily(user_name) ==
  <<with_cache_frame(CacheKey("user", <<user_name>>), "user", user_name, <<>>, PostTTL)>>

Cache_get_user(user_name) ==
  <<with_cache_frame(CacheKey("user", <<user_name>>), "user", user_name, <<>>, UserTTL)>>

\* as Cache_get_story, but the key is that of the user whose story it is
Cache_get_story_by_user(user_name, story_id) ==
  <<with_cache_frame(CacheKey("user", <<user_name>>), "story", user_name, story_id, StoryTTL)>>

Cache_get_story(user_name, story_id) ==
  <<with_cache_frame(CacheKey("story", story_id), "story", user_name, story_id, StoryTTL)>>

\* InstagramAPIByPrivateAPI.get_post / get_user / get_stories / get_story
Private_get_post(shortcode) ==
  <<perform_api_action_frame("media_info", "", shortcode)>>

Private_get_user(user_name) ==
  <<perform_api_action_frame("username_info", user_name, <<>>)>>

\* get_stories starts with self.get_user(user_name): the cached get_user
Private_get_stories(user_name) ==
  <<Frame("Private_get_stories", "user", "", user_name, <<>>, NoTTL)>>
  \o Cache_get_user(user_name)

\* get_story starts with self.get_stories(user_name)
Private_get_story(user_name, story_id) ==
  <<Frame("Private_get_story", "stories", "", user_name, story_id, NoTTL)>>
  \o Private_get_stories(user_name)

\* get_stories: self.get_user has returned; then reels_media([user_id])
Private_get_stories_user(t) ==
  /\ Back(t, "Private_get_stories", "user")
  /\ IF ret[t].exc # ""
     THEN Returning(t, Same(ret[t]))
     ELSE Call(t, "reels", <<perform_api_action_frame("reels_media", ret[t].val.user, <<>>)>>)
  /\ UNCHANGED shared

\* get_stories: ...['reels'][str(user_id)] of what reels_media returned
Private_get_stories_reels(t) ==
  /\ Back(t, "Private_get_stories", "reels")
  /\ IF ret[t].exc # ""
     THEN Returning(t, Same(ret[t]))
     ELSE IF ret[t].val.user # Top(t).user
     THEN Returning(t, Raise("KeyError"))
     ELSE Returning(t, Ok(Value("stories", "private", <<>>, Top(t).user, "", <<>>,
                                FALSE, ret[t].val.items)))
  /\ UNCHANGED shared

\* as startswith, but prefix may stand anywhere in s (str.__contains__)
startswith_anywhere(s, prefix) ==
  \E k \in 0..(Len(s) - Len(prefix)) : SubSeq(s, k + 1, k + Len(prefix)) = prefix

\* str.startswith
startswith(s, prefix) ==
  Len(prefix) <= Len(s) /\ SubSeq(s, 1, Len(prefix)) = prefix

\* get_story: the first item whose id starts with story_id, or None
FirstItem(items, story_id) ==
  LET hits == {i \in 1..Len(items) : startswith(items[i], story_id)}
  IN IF hits = {} THEN None
     ELSE LET i == CHOOSE j \in hits : \A k \in hits : j <= k
          IN Value("story", "private", items[i], "", "", <<>>, FALSE, <<>>)

Private_get_story_stories(t) ==
  /\ Back(t, "Private_get_story", "stories")
  /\ IF ret[t].exc # ""
     THEN Returning(t, Same(ret[t]))
     ELSE Returning(t, Ok(FirstItem(ret[t].val.items, Top(t).code)))
  /\ UNCHANGED shared

\* ------------------------------------------------ InstagramAPIByEmbedAPI
\* what the upstream serves: the children of a post, and its owner
RawShapes ==
  { [sidecar |-> TRUE, types |-> <<"GraphImage", "GraphVideo">>],
    [sidecar |-> FALSE, types |-> <<"GraphStoryVideo">>] }
PostOwner == "alice"

Raw(root, tier, post_id, shape) ==
  Value(root, tier, post_id, PostOwner, "", shape.types, shape.sidecar, <<>>)

_get_post_data_frame(post_id) ==
  Frame("_get_post_data", "fetch", "", "", post_id, NoTTL)

\* _transform_gql_child: the variant made of a child, or the exception raised
_transform_gql_child(typename) ==
  CASE typename \in {"GraphImage", "StoryImage", "XDTGraphImage"} -> "image_versions2"
    [] typename \in {"GraphVideo", "XDTGraphVideo"} -> "video_versions"
    [] OTHER -> "Exception"

_transform_to_carousel_media(post) ==
  IF post.sidecar
  THEN [i \in 1..Len(post.media) |-> _transform_gql_child(post.media[i])]
  ELSE <<_transform_gql_child(post.media[1])>>

HasRoot(data) == data.kind \in {"shortcode_media", "xdt_shortcode_media"}

ChildRaises(data) ==
  \E i \in 1..Len(_transform_to_carousel_media(data)) :
     _transform_to_carousel_media(data)[i] = "Exception"

\* _transform_to_post: the post, or the exception raised on the way
_transform_to_post(data) ==
  IF ~HasRoot(data) THEN Raise("TypeError")
  ELSE IF ChildRaises(data) THEN Raise("Exception")
  ELSE Ok(Value("post", "embed", data.id, data.user, "",
                _transform_to_carousel_media(data), FALSE, <<>>))

\* _transform_to_reel: the first media of the post merged with id and media_type
_transform_to_reel(data) ==
  IF ~HasRoot(data) THEN Raise("TypeError")
  ELSE IF ChildRaises(data) THEN Raise("Exception")
  ELSE IF _transform_to_carousel_media(data) = <<>> THEN Raise("IndexError")
  ELSE Ok(Value("story", "embed", data.id, "", "",
                <<_transform_to_carousel_media(data)[1]>>, FALSE, <<>>))

Tried(f, k) == [f EXCEPT !.tried = k]

\* _get_post_data: the embed page is fetched, then strategy 1 (the
\* __additionalDataLoaded script) and strategy 2 (the TimeSliceImpl token)
\* run on its text; only a miss of both goes on to strategy 3
_get_post_data_fetch(t) ==
  /\ At(t, "_get_post_data", "fetch")
  /\ \/ ReturningFrom(t, Raise("ConnectionError"), Tried(Top(t), 0))
     \/ \E shape \in RawShapes :
          ReturningFrom(t, Ok(Raw("shortcode_media", "s1", Top(t).code, shape)),
                        Tried(Top(t), 1))
     \/ ReturningFrom(t, Raise("JSONDecodeError"), Tried(Top(t), 1))
     \/ \E shape \in RawShapes :
          ReturningFrom(t, Ok(Raw("shortcode_media", "s2", Top(t).code, shape)),
                        Tried(Top(t), 2))
     \/ ReturningFrom(t, Ok(None), Tried(Top(t), 2))
     \/ ReturningFrom(t, Raise("Error"), Tried(Top(t), 2))
     \/ GotoF(t, [Tried(Top(t), 2) EXCEPT !.pc = "gql_proxy"])
  /\ UNCHANGED shared

\* _get_post_data, strategy 3: self.proxies is the non-empty dict that login
\* indexed with ['http'], so the query goes through the proxies first
_get_post_data_gql_proxy(t) ==
  /\ At(t, "_get_post_data", "gql_proxy")
  /\ \/ \E shape \in RawShapes :
          ReturningFrom(t, Ok(Raw("xdt_shortcode_media", "gql", Top(t).code, shape)),
                        Tried(Top(t), 3))
     \/ ReturningFrom(t, Ok(None), Tried(Top(t), 3))
     \/ GotoF(t, [Tried(Top(t), 3) EXCEPT !.pc = "gql"])
  /\ UNCHANGED shared

\* _get_post_data, strategy 3 again without proxies: its failure is raised
_get_post_data_gql(t) ==
  /\ At(t, "_get_post_data", "gql")
  /\ \/ \E shape \in RawShapes :
          Returning(t, Ok(Raw("xdt_shortcode_media", "gql", Top(t).code, shape)))
     \/ Returning(t, Ok(None))
     \/ Returning(t, Raise("ConnectionError"))
  /\ UNCHANGED shared

\* InstagramAPIByEmbedAPI.get_post: try: return self._get_post(shortcode)
Embed_get_post(shortcode) ==
  <<Frame("Embed_get_post", "data", "", "", shortcode, NoTTL),
    _get_post_data_frame(shortcode)>>

\* except: return super().get_post(shortcode)
SuperGetPost(t, f, why) ==
  CallF(t, [f EXCEPT !.pc = "super", !.supers = @ + 1, !.kind = why],
        Private_get_post(f.code))

\* _get_post_data gave nothing to transform: it raised, or returned None
NoData(r) == r.exc # "" \/ r.val = None

\* _get_post: _get_post_data has returned or raised; _transform_to_post, then
\* self.get_user(...); any exception goes to super().get_post(shortcode)
Embed_get_post_data(t) ==
  /\ Back(t, "Embed_get_post", "data")
  /\ IF ret[t].exc = "" /\ _transform_to_post(ret[t].val).exc = ""
     THEN CallF(t, [Top(t) EXCEPT !.pc = "user",
                                  !.v = _transform_to_post(ret[t].val).val],
                Cache_get_user(_transform_to_post(ret[t].val).val.user))
     ELSE SuperGetPost(t, [Top(t) EXCEPT !.tried = ret[t].from.tried],
                       IF NoData(ret[t]) THEN "extract" ELSE "transform")
  /\ UNCHANGED shared

\* _get_post: post["items"][0]["user"] = self.get_user(...)["user"]
Embed_get_post_user(t) ==
  /\ Back(t, "Embed_get_post", "user")
  /\ IF ret[t].exc = ""
     THEN Returning(t, Ok([Top(t).v EXCEPT !.utier = ret[t].val.tier]))
     ELSE SuperGetPost(t, Top(t), "user")
  /\ UNCHANGED shared

\* as Embed_get_post_super, but what super().get_post returned is passed
\* through the user enrichment of _get_post
Embed_get_post_super_enriched(t) ==
  /\ Back(t, "Embed_get_post", "super")
  /\ IF ret[t].exc = ""
     THEN Returning(t, Ok([ret[t].val EXCEPT !.utier = "embed"]))
     ELSE Returning(t, Same(ret[t]))
  /\ UNCHANGED shared

\* get_post: super().get_post(shortcode) has returned or raised
Embed_get_post_super(t) ==
  /\ Back(t, "Embed_get_post", "super")
  /\ Returning(t, Same(ret[t]))
  /\ UNCHANGED shared

\* int(story_id) of a decimal string, and the strings int() accepts
digits == <<"0", "1", "2", "3", "4", "5", "6", "7", "8", "9">>
IsDecimal(str) ==
  /\ str # <<>>
  /\ \A i \in 1..Len(str) : \E d \in 1..10 : digits[d] = str[i]

RECURSIVE int(_)
int(str) ==
  IF str = <<>> THEN 0
  ELSE (CHOOSE d \in 0..9 : digits[d + 1] = str[Len(str)])
       + 10 * int(SubSeq(str, 1, Len(str) - 1))

RECURSIVE id_to_shortcode(_)
\* while story_id > 0: story_id, remainder = divmod(story_id, 64);
\*                      shortcode = alphabet[remainder] + shortcode
id_to_shortcode(story_id) ==
  IF story_id > 0
  THEN Append(id_to_shortcode(story_id \div 64), alphabet[(story_id % 64) + 1])
  ELSE <<>>

\* InstagramAPIByEmbedAPI.get_story: _get_story converts the story id and
\* fetches the post data; int() raising goes to super().get_story at once
Embed_get_story(user_name, story_id) ==
  IF IsDecimal(story_id)
  THEN <<Frame("Embed_get_story", "data", "", user_name, story_id, NoTTL),
         _get_post_data_frame(id_to_shortcode(int(story_id)))>>
  ELSE <<[Frame("Embed_get_story", "super", "", user_name, story_id, NoTTL)
            EXCEPT !.supers = 1]>>
       \o Private_get_story(user_name, story_id)

\* _get_story: _get_post_data has returned or raised; _transform_to_reel; any
\* exception goes to super().get_story(user_name, story_id)
Embed_get_story_data(t) ==
  /\ Back(t, "Embed_get_story", "data")
  /\ IF ret[t].exc = "" /\ _transform_to_reel(ret[t].val).exc = ""
     THEN Returning(t, _transform_to_reel(ret[t].val))
     ELSE CallF(t, [Top(t) EXCEPT !.pc = "super", !.supers = @ + 1],
                Private_get_story(Top(t).user, Top(t).code))
  /\ UNCHANGED shared

\* as Embed_get_story_super, but an exception of super().get_story is caught
\* and None returned
Embed_get_story_super_none(t) ==
  /\ Back(t, "Embed_get_story", "super")
  /\ Returning(t, IF ret[t].exc = "" THEN Same(ret[t]) ELSE Ok(None))
  /\ UNCHANGED shared

\* get_story: super().get_story(user_name, story_id) has returned or raised
Embed_get_story_super(t) ==
  /\ Back(t, "Embed_get_story", "super")
  /\ Returning(t, Same(ret[t]))
  /\ UNCHANGED shared

\* InstagramAPIByEmbedAPI.get_user: try: return self._get_user(user_name)
Embed_get_user(user_name) ==
  <<Frame("Embed_get_user", "fetch", "", user_name, <<>>, NoTTL)>>

UserValue(tier, user_name) ==
  Value("user", tier, <<>>, user_name, "", <<>>, FALSE, <<>>)

\* except: return super().get_user(user_name)
SuperGetUser(t, f) ==
  CallF(t, [f EXCEPT !.pc = "super", !.supers = @ + 1], Private_get_user(f.user))

\* _get_user_data: the embed page of the user and its TimeSliceImpl token;
\* an exception goes to super().get_user(user_name)
Embed_get_user_fetch(t) ==
  /\ At(t, "Embed_get_user", "fetch")
  /\ \/ Returning(t, Ok(UserValue("embed", Top(t).user)))
     \/ Goto(t, "web")
     \/ SuperGetUser(t, Top(t))
  /\ UNCHANGED shared

\* _get_user_data: web_profile_info through the proxies; its failure is
\* passed over and "Cannot get user" raised, which goes to super().get_user
Embed_get_user_web(t) ==
  /\ At(t, "Embed_get_user", "web")
  /\ \/ Returning(t, Ok(UserValue("web", Top(t).user)))
     \/ SuperGetUser(t, Top(t))
  /\ UNCHANGED shared

\* get_user: super().get_user(user_name) has returned or raised
Embed_get_user_super(t) ==
  /\ Back(t, "Embed_get_user", "super")
  /\ Returning(t, Same(ret[t]))
  /\ UNCHANGED shared

\* ---------------------------------------------------- InstagramAPIByCache
\* as cache_set, but never passing ex
cache_set_forever(key, text, ex) ==
  [cache EXCEPT ![key] = [NoEntry EXCEPT !.present = TRUE, !.text = text,
                                         !.ex = NoTTL, !.left = NoTTL]]

\* self.cache.set(key, text, ex=ex) when ex is given, self.cache.set(key, text)
\* otherwise: the entry lives ex hours, or for ever
cache_set(key, text, ex) ==
  [cache EXCEPT ![key] = [NoEntry EXCEPT !.present = TRUE, !.text = text,
                                         !.ex = ex, !.left = ex]]

\* the lambda with_cache was given: super().get_post / get_user / get_story
Producer(f) ==
  CASE f.kind = "post" -> Embed_get_post(f.code)
    [] f.kind = "user" -> Embed_get_user(f.user)
    [] OTHER -> Embed_get_story(f.user, f.code)

\* as with_cache_get, but f() is called whatever the lookup found
with_cache_get_always_f(t) ==
  /\ At(t, "with_cache", "get")
  /\ CallF(t, [Top(t) EXCEPT !.pc = "f", !.calls = @ + 1,
                 !.saw = IF cache[Top(t).key].ttl = NoTTL THEN "absent" ELSE "expired"],
           Producer(Top(t)))
  /\ UNCHANGED shared

\* with_cache: val = self.cache.get(key); a hit returns json.loads(val),
\* a miss calls f()
with_cache_get(t) ==
  /\ At(t, "with_cache", "get")
  /\ IF cache[Top(t).key].present
     THEN ReturningFrom(t, Ok(json_loads(cache[Top(t).key].text)),
                        [Top(t) EXCEPT !.saw = "hit"])
     ELSE CallF(t, [Top(t) EXCEPT !.pc = "f", !.calls = @ + 1,
                      !.saw = IF cache[Top(t).key].ttl = NoTTL THEN "absent" ELSE "expired"],
                Producer(Top(t)))
  /\ UNCHANGED shared

\* as with_cache_f, but val is returned without being stored
with_cache_f_unsaved(t) ==
  /\ Back(t, "with_cache", "f")
  /\ Returning(t, Same(ret[t]))
  /\ UNCHANGED shared

\* as with_cache_f, but an exception of f() is remembered: None is stored
\* under the key before the exception goes on
with_cache_f_cached_failure(t) ==
  /\ Back(t, "with_cache", "f")
  /\ IF ret[t].exc # ""
     THEN /\ Returning(t, Same(ret[t]))
          /\ cache' = [cache_set(Top(t).key, json_dumps(None), Top(t).ex)
                         EXCEPT ![Top(t).key].wrote = None, ![Top(t).key].ttl = Top(t).ex]
     ELSE /\ GotoF(t, [Top(t) EXCEPT !.pc = "set", !.v = ret[t].val])
          /\ UNCHANGED cache
  /\ UNCHANGED <<file, device_id, raw_api, ticks>>

\* with_cache: f() has returned val or raised
with_cache_f(t) ==
  /\ Back(t, "with_cache", "f")
  /\ IF ret[t].exc # ""
     THEN Returning(t, Same(ret[t]))
     ELSE GotoF(t, [Top(t) EXCEPT !.pc = "set", !.v = ret[t].val])
  /\ UNCHANGED shared

\* as with_cache_set, but set only if the key does not exist (SET ... NX)
with_cache_set_nx(t) ==
  /\ At(t, "with_cache", "set")
  /\ cache' = IF cache[Top(t).key].present THEN cache
              ELSE [cache_set(Top(t).key, json_dumps(Top(t).v), Top(t).ex)
                      EXCEPT ![Top(t).key].wrote = Top(t).v, ![Top(t).key].ttl = Top(t).ex]
  /\ Returning(t, Ok(Top(t).v))
  /\ UNCHANGED <<file, device_id, raw_api, ticks>>

\* with_cache: self.cache.set(key, json.dumps(val)[, ex=ex]); return val
with_cache_set(t) ==
  /\ At(t, "with_cache", "set")
  /\ cache' = [cache_set(Top(t).key, json_dumps(Top(t).v), Top(t).ex)
                 EXCEPT ![Top(t).key].wrote = Top(t).v, ![Top(t).key].ttl = Top(t).ex]
  /\ Returning(t, Ok(Top(t).v))
  /\ UNCHANGED <<file, device_id, raw_api, ticks>>

\* redis: d hours pass; the entries whose TTL has run out are gone
Expire(d) ==
  [k \in Keys |->
     IF ~cache[k].present THEN cache[k]
     ELSE IF cache[k].ex = NoTTL THEN [cache[k] EXCEPT !.age = @ + d]
     ELSE IF cache[k].left > d THEN [cache[k] EXCEPT !.left = @ - d, !.age = @ + d]
     ELSE [NoEntry EXCEPT !.ttl = cache[k].ttl]]

Tick ==
  /\ ticks < MaxTicks
  /\ \A u \in Threads : ~Local(u)
  /\ \E k \in Keys : cache[k].present
  /\ \E d \in TickHours : cache' = Expire(d)
  /\ ticks' = ticks + 1
  /\ UNCHANGED <<file, device_id, raw_api, stack, ret, mode>>

\* ---------------------------------------------------------- the handlers
\* the module has been imported (api constructed) and t serves a request
Ready(t) == mode[Main] = "done" /\ mode[t] = "idle" /\ Free(t)

handler_frame(route) == Frame("handler", "api", route, "", <<>>, NoTTL)

get_post_handler(t) ==
  /\ Ready(t)
  /\ \E shortcode \in Shortcodes :
       Step(t, <<handler_frame("p")>> \o Cache_get_post(shortcode), NoRet, "run")
  /\ UNCHANGED shared

get_stories_handler(t) ==
  /\ Ready(t)
  /\ \E user_name \in Users :
       Step(t, <<handler_frame("s")>> \o Private_get_stories(user_name), NoRet, "run")
  /\ UNCHANGED shared

get_story_handler(t) ==
  /\ Ready(t)
  /\ \E user_name \in Users, story_id \in StoryIds :
       Step(t, <<handler_frame("s/id")>> \o Cache_get_story(user_name, story_id),
            NoRet, "run")
  /\ UNCHANGED shared

get_user_handler(t) ==
  /\ Ready(t)
  /\ \E user_name \in Users :
       Step(t, <<handler_frame("u")>> \o Cache_get_user(user_name), NoRet, "run")
  /\ UNCHANGED shared

\* a handler: Response(json.dumps(api.<method>(...))), or the exception
respond(t) ==
  /\ Back(t, "handler", "api")
  /\ Step(t, <<>>, NoRet, "done")
  /\ UNCHANGED shared

\* ------------------------------------------------------- the state machine
InitFiles == {NoFile, CorruptFile, SavedFile([device_id |-> SavedDevice, sess |-> "saved"])}

Init ==
  /\ file \in InitFiles
  /\ device_id = NoDevice
  /\ raw_api = NoClient
  /\ cache = [k \in Keys |-> NoEntry]
  /\ ticks = 0
  /\ stack = [t \in Threads |->
               IF t = Main
               THEN <<Frame("module", "api", "", "", <<>>, NoTTL),
                      Frame("login", "start", "", "", <<>>, NoTTL)>>
               ELSE <<>>]
  /\ ret = [t \in Threads |-> NoRet]
  /\ mode = [t \in Threads |-> IF t = Main THEN "run" ELSE "idle"]

Next ==
  \/ \E t \in Threads : construct(t)
  \/ \E t \in Threads : login_fresh(t)
  \/ \E t \in Threads : login_resume(t)
  \/ \E t \in Threads : login_relogin(t)
  \/ \E t \in Threads : relogin_client(t)
  \/ \E t \in Threads : relogin_assign(t)
  \/ \E t \in Threads : perform_api_action_try(t)
  \/ \E t \in Threads : perform_api_action_relogin(t)
  \/ \E t \in Threads : perform_api_action_retry(t)
  \/ \E t \in Threads : Private_get_stories_user(t)
  \/ \E t \in Threads : Private_get_stories_reels(t)
  \/ \E t \in Threads : Private_get_story_stories(t)
  \/ \E t \in Threads : _get_post_data_fetch(t)
  \/ \E t \in Threads : _get_post_data_gql_proxy(t)
  \/ \E t \in Threads : _get_post_data_gql(t)
  \/ \E t \in Threads : Embed_get_post_data(t)
  \/ \E t \in Threads : Embed_get_post_user(t)
  \/ \E t \in Threads : Embed_get_post_super(t)
  \/ \E t \in Threads : Embed_get_story_data(t)
  \/ \E t \in Threads : Embed_get_story_super(t)
  \/ \E t \in Threads : Embed_get_user_fetch(t)
  \/ \E t \in Threads : Embed_get_user_web(t)
  \/ \E t \in Threads : Embed_get_user_super(t)
  \/ \E t \in Threads : with_cache_get(t)
  \/ \E t \in Threads : with_cache_f(t)
  \/ \E t \in Threads : with_cache_set(t)
  \/ \E t \in Req : get_post_handler(t)
  \/ \E t \in Req : get_stories_handler(t)
  \/ \E t \in Req : get_story_handler(t)
  \/ \E t \in Req : get_user_handler(t)
  \/ \E t \in Req : respond(t)
  \/ Tick

Spec == Init /\ [][Next]_vars

\* ------------------------------------------- with_cache called on its own
\* with_cache(key, f) as its signature allows: with the key and producer of
\* a resource and no ex; the producers' own calls of get_user pass theirs

with_cache_call(t) ==
  /\ Ready(t)
  /\ \E r \in Resources :
       Step(t, <<handler_frame("with_cache"),
                 with_cache_frame(CacheKey(r[1], r[2]), r[1],
                                  IF r[1] = "post" THEN "" ELSE CHOOSE u \in Users : TRUE,
                                  IF r[1] = "user" THEN <<>> ELSE r[2], NoTTL)>>,
            NoRet, "run")
  /\ UNCHANGED shared

NextCache ==
  \/ \E t \in Threads : construct(t)
  \/ \E t \in Threads : login_fresh(t)
  \/ \E t \in Threads : login_resume(t)
  \/ \E t \in Threads : login_relogin(t)
  \/ \E t \in Threads : relogin_client(t)
  \/ \E t \in Threads : relogin_assign(t)
  \/ \E t \in Threads : perform_api_action_try(t)
  \/ \E t \in Threads : perform_api_action_relogin(t)
  \/ \E t \in Threads : perform_api_action_retry(t)
  \/ \E t \in Threads : Private_get_stories_user(t)
  \/ \E t \in Threads : Private_get_stories_reels(t)
  \/ \E t \in Threads : Private_get_story_stories(t)
  \/ \E t \in Threads : _get_post_data_fetch(t)
  \/ \E t \in Threads : _get_post_data_gql_proxy(t)
  \/ \E t \in Threads : _get_post_data_gql(t)
  \/ \E t \in Threads : Embed_get_post_data(t)
  \/ \E t \in Threads : Embed_get_post_user(t)
  \/ \E t \in Threads : Embed_get_post_super(t)
  \/ \E t \in Threads : Embed_get_story_data(t)
  \/ \E t \in Threads : Embed_get_story_super(t)
  \/ \E t \in Threads : Embed_get_user_fetch(t)
  \/ \E t \in Threads : Embed_get_user_web(t)
  \/ \E t \in Threads : Embed_get_user_super(t)
  \/ \E t \in Threads : with_cache_get(t)
  \/ \E t \in Threads : with_cache_f(t)
  \/ \E t \in Threads : with_cache_set(t)
  \/ \E t \in Req : with_cache_call(t)
  \/ \E t \in Req : respond(t)
  \/ Tick

SpecCache == Init /\ [][NextCache]_vars

\* ------------------------------------- the codec and the transforms alone
\* shortcode_to_id, the loop of _get_story, the private tier's get_post and
\* _transform_to_post / _transform_to_reel, each called by thread PureThread
\* on an argument drawn from the sets below, api constructed from a saved
\* session.
PureThread == "r1"

\* symbols from both ends of each run of the alphabet, and one outside it
CodecSymbols == {"A", "B", "Z", "a", "z", "0", "9", "-", "_", "!"}
CodecInputs == UNION {[1..n -> CodecSymbols] : n \in 1..MaxCodeLen}

\* an image, a video and an unsupported type
TypeNames == {"GraphImage", "GraphVideo", "GraphStoryVideo"}
PureShapes ==
  {[sidecar |-> TRUE, types |-> ty] :
     ty \in UNION {[1..n -> TypeNames] : n \in 0..MaxEdges}}
  \cup {[sidecar |-> FALSE, types |-> <<ty>>] : ty \in TypeNames}
PureRoots == {"shortcode_media", "xdt_shortcode_media"}

SavedSession == [device_id |-> SavedDevice, sess |-> "saved"]

PureFrames ==
  {Frame("pure", "shortcode_to_id", "", "", s, NoTTL) : s \in CodecInputs}
  \cup {[Frame("pure", "transform", "", "", <<>>, NoTTL)
           EXCEPT !.v = Raw(root, "gql", <<"B", "C">>, shape)] :
         root \in PureRoots, shape \in PureShapes}

InitPure ==
  /\ file = SavedFile(SavedSession)
  /\ device_id = SavedDevice
  /\ raw_api = SavedSession
  /\ cache = [k \in Keys |-> NoEntry]
  /\ ticks = 0
  /\ \E f \in PureFrames :
       stack = [t \in Threads |-> IF t = PureThread THEN <<f>> ELSE <<>>]
  /\ ret = [t \in Threads |-> NoRet]
  /\ mode = [t \in Threads |->
               IF t = PureThread THEN "run" ELSE IF t = Main THEN "done" ELSE "idle"]

\* an identifier, as shortcode_to_id returns it, and a shortcode, as the loop
\* of _get_story builds it
IdValue(id) == Value("id", "", id, "", "", <<>>, FALSE, <<>>)
ShortcodeValue(shortcode) == Value("shortcode", "", shortcode, "", "", <<>>, FALSE, <<>>)

\* self.shortcode_to_id(shortcode): the id, or the KeyError of b64alphabetmap[c]
pure_shortcode_to_id(t) ==
  /\ At(t, "pure", "shortcode_to_id")
  /\ IF ValidShortcode(Top(t).code)
     THEN GotoF(t, [Top(t) EXCEPT !.pc = "id_to_shortcode",
                                  !.v = IdValue(shortcode_to_id(Top(t).code))])
     ELSE Returning(t, Raise("KeyError"))
  /\ UNCHANGED shared

\* the loop of _get_story on that id
pure_id_to_shortcode(t) ==
  /\ At(t, "pure", "id_to_shortcode")
  /\ Returning(t, Ok(ShortcodeValue(id_to_shortcode(Top(t).v.id))))
  /\ UNCHANGED shared

\* InstagramAPIByPrivateAPI.get_post(shortcode) called, and returning
pure_get_post(t) ==
  /\ At(t, "pure", "shortcode_to_id")
  /\ Call(t, "get_post", Private_get_post(Top(t).code))
  /\ UNCHANGED shared

pure_get_post_return(t) ==
  /\ Back(t, "pure", "get_post")
  /\ Returning(t, Same(ret[t]))
  /\ UNCHANGED shared

\* self._transform_to_post(data) and self._transform_to_reel(data)
pure_transform_to_post(t) ==
  /\ At(t, "pure", "transform")
  /\ ReturningFrom(t, _transform_to_post(Top(t).v), [Top(t) EXCEPT !.pc = "post"])
  /\ UNCHANGED shared

pure_transform_to_reel(t) ==
  /\ At(t, "pure", "transform")
  /\ ReturningFrom(t, _transform_to_reel(Top(t).v), [Top(t) EXCEPT !.pc = "reel"])
  /\ UNCHANGED shared

NextPure ==
  \/ \E t \in Threads : pure_shortcode_to_id(t)
  \/ \E t \in Threads : pure_id_to_shortcode(t)
  \/ \E t \in Threads : pure_get_post(t)
  \/ \E t \in Threads : pure_get_post_return(t)
  \/ \E t \in Threads : pure_transform_to_post(t)
  \/ \E t \in Threads : pure_transform_to_reel(t)
  \/ \E t \in Threads : perform_api_action_try(t)
  \/ \E t \in Threads : perform_api_action_relogin(t)
  \/ \E t \in Threads : perform_api_action_retry(t)
  \/ \E t \in Threads : relogin_client(t)
  \/ \E t \in Threads : relogin_assign(t)

SpecPure == InitPure /\ [][NextPure]_vars

\* ------------------------------------------------ the story route alone
\* /instagram/s/<user_name>/<story_id> requested for several user names
get_story_handler_users(t) ==
  /\ Ready(t)
  /\ \E user_name \in StoryUsers, story_id \in StoryIds :
       Step(t, <<handler_frame("s/id")>> \o Cache_get_story(user_name, story_id),
            NoRet, "run")
  /\ UNCHANGED shared

NextStory ==
  \/ \E t \in Threads : construct(t)
  \/ \E t \in Threads : login_fresh(t)
  \/ \E t \in Threads : login_resume(t)
  \/ \E t \in Threads : login_relogin(t)
  \/ \E t \in Threads : relogin_client(t)
  \/ \E t \in Threads : relogin_assign(t)
  \/ \E t \in Threads : perform_api_action_try(t)
  \/ \E t \in Threads : perform_api_action_relogin(t)
  \/ \E t \in Threads : perform_api_action_retry(t)
  \/ \E t \in Threads : Private_get_stories_user(t)
  \/ \E t \in Threads : Private_get_stories_reels(t)
  \/ \E t \in Threads : Private_get_story_stories(t)
  \/ \E t \in Threads : _get_post_data_fetch(t)
  \/ \E t \in Threads : _get_post_data_gql_proxy(t)
  \/ \E t \in Threads : _get_post_data_gql(t)
  \/ \E t \in Threads : Embed_get_story_data(t)
  \/ \E t \in Threads : Embed_get_story_super(t)
  \/ \E t \in Threads : Embed_get_user_fetch(t)
  \/ \E t \in Threads : Embed_get_user_web(t)
  \/ \E t \in Threads : Embed_get_user_super(t)
  \/ \E t \in Threads : with_cache_get(t)
  \/ \E t \in Threads : with_cache_f(t)
  \/ \E t \in Threads : with_cache_set(t)
  \/ \E t \in Req : get_story_handler_users(t)
  \/ \E t \in Req : respond(t)
  \/ Tick

SpecStory == Init /\ [][NextStory]_vars

\* ==================================================================== claims
Frames(t) == {stack[t][i] : i \in 1..Len(stack[t])}
Moved(t) == stack'[t] # stack[t] \/ mode'[t] # mode[t]
\* the call that has just returned to thread t's top frame
Returned(t, fn) == mode[t] = "ret" /\ ret[t].from.fn = fn
\* thread t is in method fn at pc, about to run / a call of it having returned
In(t, fn, pc) ==
  mode[t] = "run" /\ stack[t] # <<>> /\ Top(t).fn = fn /\ Top(t).pc = pc
BackIn(t, fn, pc) ==
  mode[t] = "ret" /\ stack[t] # <<>> /\ Top(t).fn = fn /\ Top(t).pc = pc
\* the frames a step of thread t pushed above its top frame
Pushed(t) == SubSeq(stack'[t], Len(stack[t]) + 1, Len(stack'[t]))

\* C1 as stated: no invocation of get_post, get_user (one perform_api_action
\* each) or get_stories calls relogin more than once, and a call whose first
\* attempt met a session expiry has made its retry when it ends.
C1_Original ==
  \A t \in Req :
    /\ \A f \in Frames(t) :
         f.fn \in {"perform_api_action", "Private_get_stories"} => f.n <= 1
    /\ (Returned(t, "perform_api_action") /\ ret[t].from.n >= 1)
         => (ret[t].from.n = 1 /\ ret[t].from.calls = 2)

\* C1 amended: within one perform_api_action call, a session expiry of the
\* first attempt leads to exactly one call of relogin; when relogin returns
\* the call is retried exactly once, when relogin raises there is no retry
\* and its exception ends the call; get_stories, which makes two such calls,
\* performs at most two relogins.
C1_ReloginOncePerCall ==
  \A t \in Req :
    /\ \A f \in Frames(t) :
         /\ f.fn = "perform_api_action" =>
              /\ f.pc = "try" => (f.n = 0 /\ f.calls = 0)
              /\ f.pc \in {"relogin", "retry"} => (f.n = 1 /\ f.calls = 1)
         /\ f.fn = "Private_get_stories" => f.n <= 2
    /\ Returned(t, "perform_api_action") =>
         /\ ret[t].from.n <= 1
         /\ ret[t].from.calls = 2 <=> ret[t].from.pc = "retry"
         /\ ret[t].from.pc = "retry" => ret[t].from.n = 1
         /\ (ret[t].from.n = 1 /\ ret[t].from.pc = "relogin")
              => (ret[t].from.calls = 1 /\ ret[t].exc = "ClientError")

\* a call that met a session expiry, relogged in once and returned the value
\* of its one retry
C1_Witness ==
  \E t \in Req :
    /\ Returned(t, "perform_api_action")
    /\ ret[t].from.n = 1
    /\ ret[t].from.calls = 2
    /\ ret[t].exc = ""

\* C2: a session expiry raised by the retry ends the call and is what the
\* caller gets: a call that is still active has made no second attempt yet,
\* and a call ended by its retry made exactly two attempts and one relogin.
C2_RetryExpiryIsFinal ==
  \A t \in Req :
    /\ \A f \in Frames(t) : f.fn = "perform_api_action" => (f.calls <= 1 /\ f.n <= 1)
    /\ (Returned(t, "perform_api_action") /\ ret[t].exc \in SessionExpiry) =>
         /\ ret[t].from.pc = "retry"
         /\ ret[t].from.calls = 2
         /\ ret[t].from.n = 1
         /\ \A f \in Frames(t) : f.fn # "perform_api_action"

\* the retry raised a session expiry, which has reached the caller
C2_Witness ==
  \E t \in Req :
    /\ Returned(t, "perform_api_action")
    /\ ret[t].from.pc = "retry"
    /\ ret[t].exc \in SessionExpiry

\* C3: when get_post's extraction ran through all three strategies and gave
\* no data, super().get_post was called exactly once, as one
\* perform_api_action call of media_info, and what that call returned or
\* raised is what get_post returns or raises, the value as the upstream gave it.
C3_FallbackOnceUnchanged ==
  [][\A t \in Req :
       (/\ BackIn(t, "Embed_get_post", "super")
        /\ Top(t).kind = "extract"
        /\ Top(t).tried = 3
        /\ Moved(t))
       => /\ Top(t).supers = 1
          /\ ret[t].from.fn = "perform_api_action"
          /\ ret[t].from.kind = "media_info"
          /\ ret[t].from.code = Top(t).code
          /\ stack'[t] = Pop(stack[t])
          /\ ret'[t].from = Top(t)
          /\ ret'[t].exc = ret[t].exc
          /\ ret'[t].val = ret[t].val
          /\ ret[t].exc = "" => ret'[t].val = ApiResult("media_info", "", Top(t).code, <<>>)
    ]_vars

\* get_post has returned the private tier's post after all three strategies
\* gave nothing
C3_Witness ==
  \E t \in Req :
    /\ Returned(t, "Embed_get_post")
    /\ ret[t].from.kind = "extract"
    /\ ret[t].from.tried = 3
    /\ ret[t].from.supers = 1
    /\ ret[t].exc = ""
    /\ ret[t].val = ApiResult("media_info", "", ret[t].from.code, <<>>)

\* C4 as stated: get_post falls back to super().get_post for want of data
\* only when a strategy was tried and all three have been: a strategy that
\* throws or gives nothing leads to the next one.
C4_FallbackOnlyAfterAllThree ==
  \A t \in Req : \A f \in Frames(t) :
    (f.fn = "Embed_get_post" /\ f.pc = "super" /\ f.kind = "extract" /\ f.tried >= 1)
      => f.tried = 3

\* strategy 1 threw on the embed page, strategies 2 and 3 were never tried,
\* and get_post has returned the private tier's post
C4_Witness ==
  \E t \in Req :
    /\ Returned(t, "Embed_get_post")
    /\ ret[t].from.kind = "extract"
    /\ ret[t].from.tried = 1
    /\ ret[t].from.supers = 1
    /\ ret[t].exc = ""

\* C5: a lookup that finds an entry returns json.loads of its text, which is
\* the value that was written, and ends with_cache there: f was not called,
\* no frame was pushed, and nothing was written.
C5_HitReturnsStored ==
  [][\A t \in Req :
       (/\ In(t, "with_cache", "get")
        /\ cache[Top(t).key].present
        /\ Moved(t))
       => /\ stack'[t] = Pop(stack[t])
          /\ mode'[t] = "ret"
          /\ ret'[t].exc = ""
          /\ ret'[t].val = json_loads(cache[Top(t).key].text)
          /\ ret'[t].val = cache[Top(t).key].wrote
          /\ ret'[t].from.calls = 0
          /\ ret'[t].from.saw = "hit"
          /\ cache' = cache
    ]_vars

\* a lookup has hit an entry that another request wrote
C5_Witness ==
  \E t \in Req :
    /\ Returned(t, "with_cache")
    /\ ret[t].from.saw = "hit"
    /\ ret[t].from.calls = 0
    /\ cache[ret[t].from.key].present
    /\ ret[t].val = cache[ret[t].from.key].wrote
    /\ ret[t].val # None

\* C6: a lookup that finds no entry calls f; when f has returned val,
\* with_cache stores json.dumps(val) under the key, with the TTL ex it was
\* given or, given none, with no expiry (the entry outlives every step of the
\* clock), touches no other key, and returns val.
C6_MissCallsStoresReturns ==
  [][/\ \A t \in Req :
          /\ (In(t, "with_cache", "get") /\ ~cache[Top(t).key].present /\ Moved(t))
               => /\ Len(stack'[t]) > Len(stack[t])
                  /\ Pushed(t) = Producer(Top(t))
                  /\ stack'[t][Len(stack[t])].pc = "f"
                  /\ stack'[t][Len(stack[t])].calls = 1
                  /\ cache' = cache
          /\ (BackIn(t, "with_cache", "f") /\ ret[t].exc = "" /\ Moved(t))
               => /\ stack'[t] = SetTop(stack[t], [Top(t) EXCEPT !.pc = "set", !.v = ret[t].val])
                  /\ mode'[t] = "run"
                  /\ cache' = cache
          /\ (In(t, "with_cache", "set") /\ Moved(t))
               => /\ cache'[Top(t).key].present
                  /\ cache'[Top(t).key].text = json_dumps(Top(t).v)
                  /\ cache'[Top(t).key].ex = Top(t).ex
                  /\ cache'[Top(t).key].left = Top(t).ex
                  /\ \A k \in Keys \ {Top(t).key} : cache'[k] = cache[k]
                  /\ stack'[t] = Pop(stack[t])
                  /\ ret'[t].exc = ""
                  /\ ret'[t].val = Top(t).v
     /\ ticks' # ticks =>
          \A k \in Keys : (cache[k].present /\ cache[k].ex = NoTTL)
             => (cache'[k].present /\ cache'[k].text = cache[k].text)
    ]_vars

\* with_cache, called without ex, has returned what f returned and the entry
\* it stored has no expiry, while an entry stored with a TTL is there as well
C6_Witness ==
  \E t \in Req :
    /\ Returned(t, "with_cache")
    /\ ret[t].from.pc = "set"
    /\ ret[t].from.ex = NoTTL
    /\ ret[t].val = ret[t].from.v
    /\ ret[t].val # None
    /\ cache[ret[t].from.key].present
    /\ cache[ret[t].from.key].ex = NoTTL
    /\ cache[ret[t].from.key].text = json_dumps(ret[t].val)
    /\ \E k \in Keys : cache[k].present /\ cache[k].ex # NoTTL

\* C7: an entry in the cache decodes to the value that was written, carries
\* the TTL it was written with and is younger than that TTL, so an entry
\* whose TTL has elapsed is gone; a lookup that finds the entry returns the
\* written value; a lookup of a key whose entry has expired calls f.
C7_RoundTripUntilExpiry ==
  [][/\ \A k \in Keys : cache'[k].present =>
          /\ json_loads(cache'[k].text) = cache'[k].wrote
          /\ cache'[k].ex = cache'[k].ttl
          /\ cache'[k].ttl # NoTTL => cache'[k].age < cache'[k].ttl
          /\ (ticks' # ticks) => (cache[k].present /\ cache'[k].age > cache[k].age)
     /\ \A t \in Req :
          /\ (In(t, "with_cache", "set") /\ Moved(t))
               => /\ cache'[Top(t).key].present
                  /\ cache'[Top(t).key].wrote = Top(t).v
                  /\ cache'[Top(t).key].age = 0
          /\ (In(t, "with_cache", "get") /\ cache[Top(t).key].present /\ Moved(t))
               => (ret'[t].exc = "" /\ ret'[t].val = cache[Top(t).key].wrote)
          /\ (In(t, "with_cache", "get") /\ ~cache[Top(t).key].present
                /\ cache[Top(t).key].ttl # NoTTL /\ Moved(t))
               => /\ Pushed(t) = Producer(Top(t))
                  /\ stack'[t][Len(stack[t])].calls = 1
                  /\ stack'[t][Len(stack[t])].saw = "expired"
    ]_vars

\* a lookup after the entry's TTL had elapsed was a miss: f was called again
\* and the key rewritten
C7_Witness ==
  \E t \in Req :
    /\ Returned(t, "with_cache")
    /\ ret[t].from.saw = "expired"
    /\ ret[t].from.calls = 1
    /\ ret[t].from.pc = "set"
    /\ cache[ret[t].from.key].present
    /\ cache[ret[t].from.key].age = 0

\* the TTL, in hours, of the entries of a kind: 24 hours, 7 days, 24 hours
C8_TTL(kind) == CASE kind = "post" -> 24 [] kind = "user" -> 7 * 24 [] OTHER -> 24

\* C8 as stated: every entry in the cache has a key kind:id with kind one of
\* post, user, story, and was written with the TTL of its kind, never without.
C8_Original ==
  \A k \in Keys : cache[k].present =>
    /\ Len(k) = 2
    /\ k[1] \in Kinds
    /\ cache[k].ex = C8_TTL(k[1])
    /\ cache[k].ex # NoTTL

\* C8 amended: every entry in the cache has a key instagram:kind:id with kind
\* one of post, user, story and id the shortcode, user name or story id, and
\* was written with the TTL of its kind (24 hours, 7 days, 24 hours), never
\* without one; every call of with_cache is for such a key and TTL.
C8_PrefixedKeysAndTTLs ==
  /\ \A k \in Keys : cache[k].present =>
       /\ Len(k) = 3
       /\ k[1] = "instagram"
       /\ k[2] \in Kinds
       /\ k[2] = "post" => k[3] \in Shortcodes
       /\ k[2] = "user" => k[3] \in {<<u>> : u \in Users}
       /\ k[2] = "story" => k[3] \in StoryIds
       /\ cache[k].ex = C8_TTL(k[2])
       /\ cache[k].ex # NoTTL
  /\ \A t \in Req : \A f \in Frames(t) : f.fn = "with_cache" =>
       /\ f.kind \in Kinds
       /\ f.key = <<"instagram", f.kind, IF f.kind = "user" THEN <<f.user>> ELSE f.code>>
       /\ f.ex = C8_TTL(f.kind)

\* entries of the three kinds are in the cache together
C8_Witness ==
  \A kind \in Kinds : \E k \in Keys :
    /\ cache[k].present
    /\ Len(k) = 3
    /\ k[2] = kind
    /\ cache[k].ex = C8_TTL(kind)

\* another thread is inside a with_cache call on the same key, past its lookup
C9_Racing(t, key) ==
  \E u \in Req \ {t} : \E f \in Frames(u) :
    f.fn = "with_cache" /\ f.key = key /\ f.pc \in {"f", "set"}

\* C9: a lookup that misses calls f even while another request is producing
\* or about to write the same key, and a write to a key that has an entry by
\* then replaces it: the entry holds this call's value with a full TTL.
C9_ConcurrentMissesBothWrite ==
  [][\A t \in Req :
       /\ (In(t, "with_cache", "get") /\ ~cache[Top(t).key].present
             /\ C9_Racing(t, Top(t).key) /\ Moved(t))
            => Pushed(t) = Producer(Top(t))
       /\ (In(t, "with_cache", "set") /\ cache[Top(t).key].present /\ Moved(t))
            => /\ cache'[Top(t).key].present
               /\ cache'[Top(t).key].text = json_dumps(Top(t).v)
               /\ cache'[Top(t).key].wrote = Top(t).v
               /\ cache'[Top(t).key].left = Top(t).ex
               /\ cache'[Top(t).key].age = 0
               /\ ret'[t].val = Top(t).v
    ]_vars

\* two requests missed the same key and both called f: one has just written
\* its value, the other is about to overwrite it with a different one
C9_Witness ==
  \E t \in Req : \E u \in Req \ {t} :
    /\ In(t, "with_cache", "set")
    /\ Top(t).saw = "absent"
    /\ cache[Top(t).key].present
    /\ Top(t).v # cache[Top(t).key].wrote
    /\ Returned(u, "with_cache")
    /\ ret[u].from.pc = "set"
    /\ ret[u].from.saw = "absent"
    /\ ret[u].from.key = Top(t).key

\* C10: a session expiry sends a call to relogin whatever the other requests
\* are doing; a relogin that logs in writes its own session to the settings
\* file and then makes its own Client the shared one, also while another
\* request is inside relogin.
C10_ReloginNotSingleFlight ==
  [][\A t \in Req :
       /\ (In(t, "perform_api_action", "try") /\ Moved(t) /\ Len(stack'[t]) > Len(stack[t]))
            => Pushed(t) = <<relogin_frame>>
       /\ (In(t, "relogin", "client") /\ Moved(t))
            => \/ /\ stack'[t] = Pop(stack[t])
                  /\ ret'[t].exc = "ClientError"
                  /\ file' = file
               \/ /\ stack'[t] = SetTop(stack[t], [Top(t) EXCEPT !.pc = "assign",
                                       !.client = NewClient(t, device_id)])
                  /\ file' = SavedFile(NewClient(t, device_id))
                  /\ device_id' = device_id
       /\ (In(t, "relogin", "assign") /\ Moved(t))
            => /\ raw_api' = NewClient(t, device_id)
               /\ stack'[t] = Pop(stack[t])
               /\ ret'[t].exc = ""
    ]_vars

\* two requests are inside relogin together; both have logged in, the
\* settings file holds the session of one, and the other has just made its
\* Client the shared one
C10_Witness ==
  \E t \in Req : \E u \in Req \ {t} :
    /\ In(t, "relogin", "assign")
    /\ file.sess = t
    /\ Returned(u, "relogin")
    /\ ret[u].from.pc = "assign"
    /\ raw_api.sess = u

\* no thread is inside login or relogin
C11_Settled ==
  /\ mode[Main] = "done"
  /\ \A t \in Threads : \A f \in Frames(t) : f.fn \notin {"login", "relogin"}

\* C11 as stated: once construction has logged in, and whenever no login or
\* relogin is under way, the settings file holds the device identifier and
\* the session of the Client in use (self.raw_api).
C11_PersistedIsSessionInUse ==
  C11_Settled =>
    /\ file.state = "saved"
    /\ file.device_id = raw_api.device_id
    /\ file.sess = raw_api.sess

\* two relogins have both ended: the settings file holds the session of one
\* request, self.raw_api the Client of the other
C11_Witness ==
  /\ C11_Settled
  /\ file.state = "saved"
  /\ file.sess \in Req
  /\ raw_api.sess \in Req
  /\ file.sess # raw_api.sess

\* C12 as stated: when the settings file holds a session (construction then
\* stores its device identifier), construction never fails.
C12_Original ==
  device_id = SavedDevice => mode[Main] # "failed"

\* C12 amended: with a session in the settings file, login makes the Client
\* from it, leaving the file as it is, and calls relogin only when that
\* raises a session expiry; construction then ends logged in, with the saved
\* session and the file untouched or with the session of the relogin and the
\* file holding it, unless the resumption or the relogin raised another
\* error, which ends construction with that error.
C12_ResumeWithoutRewrite ==
  [][/\ (In(Main, "login", "start") /\ file.state = "saved" /\ Moved(Main))
          => /\ file' = file
             /\ device_id' = file.device_id
             /\ \/ /\ stack'[Main] = Pop(stack[Main])
                   /\ ret'[Main].exc = ""
                   /\ raw_api' = [device_id |-> file.device_id, sess |-> file.sess]
                \/ /\ Len(stack'[Main]) > Len(stack[Main])
                   /\ Pushed(Main) = <<relogin_frame>>
                   /\ stack'[Main][Len(stack[Main])].pc = "relogin"
                   /\ raw_api' = raw_api
                \/ /\ stack'[Main] = Pop(stack[Main])
                   /\ ret'[Main].exc = "ClientError"
                   /\ raw_api' = raw_api
     /\ (BackIn(Main, "module", "api") /\ device_id = SavedDevice /\ Moved(Main))
          => IF ret[Main].exc = ""
             THEN /\ mode'[Main] = "done"
                  /\ raw_api.device_id = SavedDevice
                  /\ file = SavedFile(raw_api)
                  /\ ret[Main].from.pc = "start" => raw_api.sess = "saved"
                  /\ ret[Main].from.pc = "relogin" => raw_api.sess = Main
             ELSE /\ mode'[Main] = "failed"
                  /\ ret[Main].exc = "ClientError"
                  /\ raw_api = NoClient
                  /\ file.sess = "saved"
    ]_vars

\* login has resumed the saved session: the Client is made from it and the
\* settings file is as it was
C12_Witness ==
  /\ BackIn(Main, "module", "api")
  /\ ret[Main].exc = ""
  /\ ret[Main].from.pc = "start"
  /\ device_id = SavedDevice
  /\ raw_api.sess = "saved"
  /\ file = SavedFile(raw_api)

\* C13 as stated: a settings file that cannot be decoded is treated as no
\* file: login goes on to a fresh login and construction does not fail on it.
C13_CorruptIsAbsent ==
  file.state = "corrupt" =>
    /\ mode[Main] # "failed"
    /\ \A f \in Frames(Main) : f.fn = "module" => ret[Main].exc # "JSONDecodeError"

\* the settings file could not be decoded and construction has failed with
\* the decoding error, no Client made and the file left as it was
C13_Witness ==
  /\ file.state = "corrupt"
  /\ mode[Main] = "failed"
  /\ raw_api = NoClient
  /\ device_id = NoDevice

\* C14 as stated: when _transform_gql_child raises on the type of a child
\* while get_post or get_story normalizes the extracted data, the call ends
\* there, raising that exception to its caller.
C14_UnsupportedIsHard ==
  [][\A t \in Req :
       /\ (/\ BackIn(t, "Embed_get_post", "data")
           /\ ret[t].exc = ""
           /\ _transform_to_post(ret[t].val).exc = "Exception"
           /\ Moved(t))
            => (stack'[t] = Pop(stack[t]) /\ ret'[t].exc = "Exception")
       /\ (/\ BackIn(t, "Embed_get_story", "data")
           /\ ret[t].exc = ""
           /\ _transform_to_reel(ret[t].val).exc = "Exception"
           /\ Moved(t))
            => (stack'[t] = Pop(stack[t]) /\ ret'[t].exc = "Exception")
    ]_vars

\* the extracted post had a child of an unsupported type, and get_post has
\* returned the private tier's post instead of raising
C14_Witness ==
  \E t \in Req :
    /\ Returned(t, "Embed_get_post")
    /\ ret[t].from.kind = "transform"
    /\ ret[t].from.supers = 1
    /\ ret[t].exc = ""
    /\ ret[t].val.tier = "private"

\* the embed tier's get_post, get_story and get_user
C15_EmbedOps == {"Embed_get_post", "Embed_get_story", "Embed_get_user"}
\* what the private tier raises: the upstream's errors and shortcode_to_id's
C15_PrivateErrors == SessionExpiry \cup {"ClientError", "KeyError"}

\* C15: what super() returned or raised is what the embed tier's method
\* returns or raises; an exception leaves an embed-tier method only that
\* way, after its one call of super(), so it is an error of the private tier
\* and the embed tier's own exceptions reach no caller; the exception comes
\* with no value, and is what the handler ends with.
C15_PrivateErrorSurfaces ==
  [][\A t \in Req :
       /\ \A fn \in C15_EmbedOps :
            (BackIn(t, fn, "super") /\ Moved(t))
              => /\ stack'[t] = Pop(stack[t])
                 /\ ret'[t].exc = ret[t].exc
                 /\ ret'[t].val = ret[t].val
       /\ (mode'[t] = "ret" /\ ret'[t].from.fn \in C15_EmbedOps /\ ret'[t].exc # "")
            => /\ ret'[t].from.pc = "super"
               /\ ret'[t].from.supers = 1
               /\ ret'[t].exc \in C15_PrivateErrors
               /\ ret'[t].val = None
       /\ (mode'[t] = "ret" /\ ret'[t].exc # "" /\ stack'[t] # <<>>
             /\ stack'[t][Len(stack'[t])].fn = "handler")
            => (ret'[t].exc \in C15_PrivateErrors /\ ret'[t].val = None)
    ]_vars

\* all three strategies gave nothing, the private tier's get_post failed
\* too, and get_post has raised the private tier's error
C15_Witness ==
  \E t \in Req :
    /\ Returned(t, "Embed_get_post")
    /\ ret[t].from.kind = "extract"
    /\ ret[t].from.tried = 3
    /\ ret[t].from.supers = 1
    /\ ret[t].exc = "ClientError"

\* C16: a shortcode over the alphabet whose first symbol is not "A",
\* converted by shortcode_to_id and back by the loop of _get_story, comes
\* back as it was; a shortcode that starts with "A" has the id of the
\* shortcode without that symbol (0 when nothing is left).
C16_RoundTrip ==
  \A t \in Req :
    /\ (Returned(t, "pure") /\ ret[t].from.pc = "id_to_shortcode"
          /\ ret[t].from.code[1] # "A")
         => /\ ret[t].exc = ""
            /\ ret[t].val.id = ret[t].from.code
            /\ Len(ret[t].val.id) >= 1
    /\ (In(t, "pure", "id_to_shortcode") /\ Top(t).code[1] = "A")
         => Top(t).v.id = IF Len(Top(t).code) = 1 THEN 0
                          ELSE shortcode_to_id(Tail(Top(t).code))

\* a shortcode of three symbols, the first not "A", has come back from its id
C16_Witness ==
  \E t \in Req :
    /\ Returned(t, "pure")
    /\ ret[t].from.pc = "id_to_shortcode"
    /\ Len(ret[t].from.code) = 3
    /\ ret[t].from.code[1] # "A"
    /\ ret[t].from.v.id >= 64 * 64
    /\ ret[t].val.id = ret[t].from.code

\* a symbol of the shortcode is none of the 64 of the alphabet
C17_Invalid(shortcode) ==
  \E i \in 1..Len(shortcode) : \A j \in 1..64 : alphabet[j] # shortcode[i]

\* C17: on a shortcode with a symbol outside the alphabet shortcode_to_id
\* raises KeyError; the private tier's get_post, whose perform_api_action
\* evaluates it first, ends with that KeyError before any upstream call and
\* without a relogin, leaving the Client, the device identifier and the
\* settings file as they were; the KeyError is what its caller gets.
C17_InvalidCharacterPropagates ==
  [][\A t \in Req :
       /\ (In(t, "pure", "shortcode_to_id") /\ C17_Invalid(Top(t).code) /\ Moved(t))
            => \/ /\ stack'[t] = Pop(stack[t])
                  /\ ret'[t].exc = "KeyError"
               \/ /\ Len(stack'[t]) > Len(stack[t])
                  /\ Pushed(t) = Private_get_post(Top(t).code)
       /\ (In(t, "perform_api_action", "try") /\ Top(t).kind = "media_info"
             /\ C17_Invalid(Top(t).code) /\ Moved(t))
            => /\ stack'[t] = Pop(stack[t])
               /\ ret'[t].exc = "KeyError"
               /\ ret'[t].from.calls = 0
               /\ ret'[t].from.n = 0
               /\ raw_api' = raw_api
               /\ device_id' = device_id
               /\ file' = file
       /\ (BackIn(t, "pure", "get_post") /\ C17_Invalid(Top(t).code) /\ Moved(t))
            => /\ ret[t].exc = "KeyError"
               /\ ret[t].from.calls = 0
               /\ ret[t].from.n = 0
               /\ ret'[t].exc = "KeyError"
               /\ raw_api = SavedSession
               /\ file = SavedFile(SavedSession)
    ]_vars

\* get_post of the private tier has raised KeyError to its caller on a
\* shortcode with "!" in it, no upstream call and no relogin made
C17_Witness ==
  \E t \in Req :
    /\ BackIn(t, "pure", "get_post")
    /\ C17_Invalid(Top(t).code)
    /\ Returned(t, "perform_api_action")
    /\ ret[t].exc = "KeyError"
    /\ ret[t].from.calls = 0
    /\ ret[t].from.n = 0
    /\ raw_api = SavedSession

\* the first symbols of id are those of prefix, one by one
C18_HasPrefix(id, prefix) ==
  /\ Len(prefix) <= Len(id)
  /\ \A k \in 1..Len(prefix) : id[k] = prefix[k]

\* C18: given the items get_stories returned, the private tier's get_story
\* returns the first of them, in their order, whose id starts with story_id,
\* symbol by symbol, and None when the id of no item does.
C18_FirstPrefixMatch ==
  [][\A t \in Req :
       (BackIn(t, "Private_get_story", "stories") /\ ret[t].exc = "" /\ Moved(t))
         => /\ stack'[t] = Pop(stack[t])
            /\ ret'[t].exc = ""
            /\ \/ /\ \A i \in 1..Len(ret[t].val.items) :
                       ~C18_HasPrefix(ret[t].val.items[i], Top(t).code)
                  /\ ret'[t].val = None
               \/ \E i \in 1..Len(ret[t].val.items) :
                    /\ C18_HasPrefix(ret[t].val.items[i], Top(t).code)
                    /\ \A j \in 1..(i - 1) :
                         ~C18_HasPrefix(ret[t].val.items[j], Top(t).code)
                    /\ ret'[t].val.kind = "story"
                    /\ ret'[t].val.id = ret[t].val.items[i]
    ]_vars

\* get_story has returned the first of two items whose ids both start with
\* story_id
C18_Witness ==
  \E t \in Req :
    /\ Returned(t, "Private_get_story")
    /\ ret[t].exc = ""
    /\ ret[t].val.kind = "story"
    /\ ret[t].val.id = <<"6", "7", "1">>
    /\ ret[t].from.code = <<"6", "7">>

\* get_story has returned None: the only item's id holds story_id but does
\* not start with it
C18_WitnessAbsent ==
  \E t \in Req :
    /\ Returned(t, "Private_get_story")
    /\ ret[t].exc = ""
    /\ ret[t].val = None

\* C19 as stated: every post _transform_to_post returns has at least one
\* media item: one when the data has no edge_sidecar_to_children, and as
\* many as there are edges, in their order, when it has.
C19_MediaNonEmpty ==
  \A t \in Req :
    (Returned(t, "pure") /\ ret[t].from.pc = "post" /\ ret[t].exc = "")
      => /\ Len(ret[t].val.media) >= 1
         /\ ~ret[t].from.v.sidecar => Len(ret[t].val.media) = 1
         /\ ret[t].from.v.sidecar =>
              /\ Len(ret[t].val.media) = Len(ret[t].from.v.media)
              /\ \A i \in 1..Len(ret[t].val.media) :
                   ret[t].val.media[i] = _transform_gql_child(ret[t].from.v.media[i])

\* _transform_to_post has returned a post without media: the data had
\* edge_sidecar_to_children with no edges
C19_Witness ==
  \E t \in Req :
    /\ Returned(t, "pure")
    /\ ret[t].from.pc = "post"
    /\ ret[t].from.v.sidecar
    /\ ret[t].exc = ""
    /\ ret[t].val.kind = "post"
    /\ ret[t].val.media = <<>>

\* C20 as stated: whenever a thread is in relogin, about to make the Client
\* with device_id=self.device_id, self.device_id has been assigned: from the
\* settings file or by the callback of an earlier login.
C20_ReloginHasDevice ==
  \A t \in Threads : In(t, "relogin", "client") => device_id # NoDevice

\* the first login, no settings file there, raised a session expiry: relogin
\* was called with self.device_id never assigned and has raised AttributeError
C20_Witness ==
  /\ Returned(Main, "relogin")
  /\ ret[Main].exc = "AttributeError"
  /\ device_id = NoDevice
  /\ file.state = "absent"
  /\ raw_api = NoClient

\* C21 as stated: once with_cache has ended with the exception of f(), its
\* key is absent from the cache.
C21_Original ==
  \A t \in Req :
    (Returned(t, "with_cache") /\ ret[t].exc # "") => ~cache[ret[t].from.key].present

\* C21: when f() raises inside with_cache, the call ends there with the same
\* exception for its caller and writes nothing: the cache is as it was, so a
\* key that was absent is absent still, and a key that another request
\* stored since the lookup keeps that request's entry.  Nothing remembers the
\* failure: a later lookup that finds the key absent calls the producer of
\* its resource again, as its first call of f.
C21_FailureNotCached ==
  [][\A t \in Req :
       /\ (BackIn(t, "with_cache", "f") /\ ret[t].exc # "" /\ Moved(t))
            => /\ cache' = cache
               /\ ~cache[Top(t).key].present => ~cache'[Top(t).key].present
               /\ stack'[t] = Pop(stack[t])
               /\ mode'[t] = "ret"
               /\ ret'[t].exc = ret[t].exc
               /\ ret'[t].from = Top(t)
       /\ (In(t, "with_cache", "get") /\ ~cache[Top(t).key].present /\ Moved(t))
            => /\ Pushed(t) = Producer(Top(t))
               /\ stack'[t][Len(stack[t])].pc = "f"
               /\ stack'[t][Len(stack[t])].calls = 1
               /\ cache' = cache
    ]_vars

\* a request's producer raised and the exception has reached the handler,
\* the key being absent; another request for the same key is at its lookup
C21_Witness ==
  \E t \in Req : \E u \in Req \ {t} :
    /\ Returned(t, "with_cache")
    /\ ret[t].exc # ""
    /\ ret[t].from.pc = "f"
    /\ ret[t].from.calls = 1
    /\ Top(t).fn = "handler"
    /\ ~cache[ret[t].from.key].present
    /\ In(u, "with_cache", "get")
    /\ Top(u).key = ret[t].from.key
    /\ Top(u).calls = 0

\* C22: the entry of a story is kept under its story_id alone: whatever the
\* user_name, get_story looks up f'instagram:story:{story_id}', and when an
\* entry is there (one with the value None included) the call returns its
\* stored value at once, the value that was written, without calling f and so
\* without any tier, and leaves the cache as it is.
C22_StoryKeyedByIdAlone ==
  [][\A t \in Req :
       (In(t, "with_cache", "get") /\ Top(t).kind = "story" /\ Moved(t))
       => /\ Top(t).user \in StoryUsers
          /\ Top(t).key = CacheKey("story", Top(t).code)
          /\ cache[CacheKey("story", Top(t).code)].present
               => /\ stack'[t] = Pop(stack[t])
                  /\ mode'[t] = "ret"
                  /\ ret'[t].exc = ""
                  /\ ret'[t].val = json_loads(cache[CacheKey("story", Top(t).code)].text)
                  /\ ret'[t].val = cache[CacheKey("story", Top(t).code)].wrote
                  /\ ret'[t].from.calls = 0
                  /\ ret'[t].from.saw = "hit"
                  /\ cache' = cache
    ]_vars

\* get_story for bob has returned the stored story without calling a tier;
\* the entry came from the other request, which asked for alice: its private
\* tier looked up alice, whose user entry is there, while none was ever
\* written for bob
C22_Witness ==
  \E t \in Req :
    /\ Returned(t, "with_cache")
    /\ ret[t].from.kind = "story"
    /\ ret[t].from.user = "bob"
    /\ ret[t].from.saw = "hit"
    /\ ret[t].from.calls = 0
    /\ ret[t].exc = ""
    /\ ret[t].val.kind = "story"
    /\ ret[t].val = cache[ret[t].from.key].wrote
    /\ cache[CacheKey("user", <<"alice">>)].present
    /\ cache[CacheKey("user", <<"bob">>)].ttl = NoTTL

\* the same with a stored None: alice has no such story, and bob gets None
C22_WitnessAbsent ==
  \E t \in Req :
    /\ Returned(t, "with_cache")
    /\ ret[t].from.kind = "story"
    /\ ret[t].from.user = "bob"
    /\ ret[t].from.saw = "hit"
    /\ ret[t].from.calls = 0
    /\ ret[t].val = None
    /\ cache[CacheKey("user", <<"alice">>)].present
    /\ cache[CacheKey("user", <<"bob">>)].ttl = NoTTL

====
